---- MODULE Spec2Model ----
(***************************************************************************)
(* LiDAR receiver: the ingestion pipeline of lidar-receiver.               *)
(*                                                                         *)
(*   BufferManager   (processing/buffer-manager.ts)  bounded FIFO queue    *)
(*   LiDARProcessor  (processing/lidar-processor.ts) drain loop, shutdown  *)
(*   FileWriter      (storage/file-writer.ts)        one blob per scan     *)
(*   ScanDatabase    (storage/database.ts)           scans/sessions tables *)
(*   LiDARWebSocketServer (server/websocket.ts)      connections, acks     *)
(*   authenticateConnection (middleware/auth.ts)     upgrade requests      *)
(*                                                                         *)
(* The specifications share the variables:                                 *)
(*   SpecBuf  a BufferManager driven through its public methods            *)
(*   Spec     the whole pipeline as the application wires it               *)
(*   SpecAuth verifyClient on upgrade requests of every shape              *)
(*   SpecWs   the server with several sockets, accepted and refused        *)
(*   SpecConn the connections of Spec and their frames, timer silent       *)
(*   SpecDb   a ScanDatabase driven by insertScan and deleteOldScans       *)
(*   SpecBufShared  SpecBuf with a caller that changes the scans it queued *)
(*   SpecRetention  the two stores under processNext and cleanup           *)
(*   SpecProc a LiDARProcessor driven through its public methods           *)
(*   SpecOverlap    the processor when writeScan settles asynchronously    *)
(*   SpecApp  Spec with the signal handlers of the application             *)
(*                                                                         *)
(* A scan's points array is modelled by its length (points), which is all  *)
(* the code reads of it apart from the first point's field types.  The seq *)
(* field of a scan stands for the identity of the JavaScript object: it is *)
(* the ordinal of the decoded frame and is never read by an operation.     *)
(***************************************************************************)
EXTENDS Integers, Sequences, FiniteSets, TLC

VARIABLES
    maxQueueSize,        \* BufferManager.maxQueueSize
    maxMemoryBytes,      \* BufferManager.maxMemoryBytes
    queue,               \* BufferManager.queue
    currentMemoryBytes,  \* BufferManager.currentMemoryBytes
    stats,               \* BufferManager.stats
    draining,            \* a generator returned by BufferManager.drain() is live
    ret,                 \* the last BufferManager call: method, return value, events emitted, drop reason logged
    procStats,           \* LiDARProcessor.stats
    processingInterval,  \* LiDARProcessor.processingInterval is set (timer armed)
    isShuttingDown,      \* LiDARProcessor.isShuttingDown
    shutdownPc,          \* position of LiDARProcessor.shutdown()
    inflight,            \* processNext invocations suspended at their await
    files,               \* blob files under SCANS_DIR: relative path -> content
    scans,               \* rows of table scans
    sessions,            \* rows of table sessions, by sessionId
    dbLog,               \* history: the calls made on a ScanDatabase by SpecDb, each with its argument, whether it threw inside, and its return value
    conns,               \* Client objects, by socket
    clients,             \* LiDARWebSocketServer.clients: deviceId -> socket of the Client
    outbox,              \* envelopes sent to sockets, each with the ordinal (seq) of the frame it answers
    upgrades,            \* history: the upgrade requests seen by verifyClient, each with its AuthResult and the socket it got (0: refused)
    nextSeq,             \* number of scan objects created so far
    acceptedLog,         \* history: seq of the scans accepted by enqueue, in order
    dequeuedLog,         \* history: seq of the scans returned by dequeue, in order
    cleared,             \* history: clear() has been called
    processLog,          \* history: seq and outcome of the scans that went through the per-scan path
    rejected,            \* history: number of submits refused by enqueue
    atShutdown,          \* history: the queue when shutdown() started
    appShutdowns         \* the runs of the application's shutdown handler, one per signal received, each with its position

bufVars  == <<maxQueueSize, maxMemoryBytes, queue, currentMemoryBytes, stats,
              draining, ret, acceptedLog, dequeuedLog, cleared>>
procVars == <<procStats, processingInterval, isShuttingDown, shutdownPc,
              inflight, processLog, rejected, atShutdown, appShutdowns>>
storeVars == <<files, scans, sessions, dbLog>>
wsVars   == <<conns, clients, outbox, upgrades>>
vars     == <<bufVars, procVars, storeVars, wsVars, nextSeq>>

----------------------------------------------------------------------------
(* Bounds of the model *)

MaxReceived == 4     \* enqueue calls in a behaviour of SpecBuf
MaxFrames   == 2     \* frames received in a behaviour of Spec
MaxSockets  == 1     \* sockets opened in a behaviour of Spec

(* Constructor arguments tried for the BufferManager of SpecBuf *)
QueueSizes   == {2, 3, 4}
MemoryLimits == {3000, 5000}
PointCounts  == {0, 10, 50}

----------------------------------------------------------------------------
(* Scans *)

(* points: the length of the points array; NoPoints when the field is absent,
   NotArray when it holds a value that is not an array (a string, a number).
   firstPoint: "numeric" when points[0] has numeric x, y and z, "other"
   when it is a value one of whose x, y, z is not a number, "null" when it is
   null or undefined, so that reading its x throws. *)
NoPoints == 0 - 1
NotArray == 0 - 2

MkScan(seq, scanId, sessionId, deviceId, timestamp, points) ==
    [seq |-> seq, scanId |-> scanId, sessionId |-> sessionId,
     deviceId |-> deviceId, timestamp |-> timestamp, points |-> points,
     firstPoint |-> "numeric"]

Null == MkScan(0, "", "", "", 0, 0)

Max(a, b) == IF a >= b THEN a ELSE b

RECURSIVE SumSeq(_)
SumSeq(s) == IF s = <<>> THEN 0 ELSE Head(s) + SumSeq(Tail(s))

Range(s) == {s[i] : i \in 1..Len(s)}

IsPrefix(s, t) == Len(s) <= Len(t) /\ SubSeq(t, 1, Len(s)) = s

----------------------------------------------------------------------------
(* BufferManager *)

PerPointBytes    == 20
MetadataOverhead == 1000

estimateScanSizeNoOverhead(scan) == scan.points * PerPointBytes

estimateScanSize(scan) == scan.points * PerPointBytes + MetadataOverhead

MemoryLimitReachedAtLimit(estimatedSize) ==
    currentMemoryBytes + estimatedSize >= maxMemoryBytes

MemoryLimitReached(estimatedSize) ==
    currentMemoryBytes + estimatedSize > maxMemoryBytes

QueueLimitReachedOffByOne == Len(queue) > maxQueueSize

QueueLimitReached == Len(queue) >= maxQueueSize

BackpressureAbove(len) == 4 * len > 3 * maxQueueSize

(* queue.length / maxQueueSize >= 0.75 *)
Backpressure(len) == 4 * len >= 3 * maxQueueSize

(* enqueue returns true *)
EnqueueAccepts(scan) ==
    /\ ~MemoryLimitReached(estimateScanSize(scan))
    /\ ~QueueLimitReached

PeakUpdate(st, len, bytes) ==
    [st EXCEPT !.peakQueueSize = Max(@, len), !.peakMemoryBytes = Max(@, bytes)]

DropKeepsScan(scan) ==
    /\ queue' = Append(queue, scan)
    /\ UNCHANGED <<currentMemoryBytes, acceptedLog>>

Drop(scan) == UNCHANGED <<queue, currentMemoryBytes, acceptedLog>>

enqueue(scan) ==
    LET estimatedSize == estimateScanSize(scan)
        st == [stats EXCEPT !.received = @ + 1]
    IN  /\ IF MemoryLimitReached(estimatedSize)
           THEN /\ stats' = [st EXCEPT !.dropped = @ + 1]
                /\ ret' = [op |-> "enqueue", ok |-> FALSE, scan |-> scan,
                           events |-> {"overflow", "dropped"}, reason |-> "memory"]
                /\ Drop(scan)
           ELSE IF QueueLimitReached
           THEN /\ stats' = [st EXCEPT !.dropped = @ + 1]
                /\ ret' = [op |-> "enqueue", ok |-> FALSE, scan |-> scan,
                           events |-> {"overflow", "dropped"}, reason |-> "count"]
                /\ Drop(scan)
           ELSE /\ queue' = Append(queue, scan)
                /\ currentMemoryBytes' = currentMemoryBytes + estimatedSize
                /\ stats' = PeakUpdate(st, Len(queue) + 1,
                                       currentMemoryBytes + estimatedSize)
                /\ ret' = [op |-> "enqueue", ok |-> TRUE, scan |-> scan,
                           events |-> IF Backpressure(Len(queue) + 1)
                                      THEN {"backpressure"} ELSE {},
                           reason |-> "none"]
                /\ acceptedLog' = Append(acceptedLog, scan.seq)
        /\ UNCHANGED <<maxQueueSize, maxMemoryBytes, draining, dequeuedLog, cleared>>

(* queue.shift(): the removed element and what is left *)
ShiftFromEnd(q) == [scan |-> q[Len(q)], rest |-> SubSeq(q, 1, Len(q) - 1)]

Shift(q) == [scan |-> Head(q), rest |-> Tail(q)]

ReleaseNothing(estimatedSize) == currentMemoryBytes

Release(estimatedSize) == Max(0, currentMemoryBytes - estimatedSize)

CountProcessedNever(st) == st

(* this.stats.processed++ *)
CountProcessed(st) == [st EXCEPT !.processed = @ + 1]

DequeuePeek(op) ==
    LET sh == Shift(queue)
    IN  /\ queue # <<>>
        /\ queue' = queue
        /\ stats' = CountProcessed(stats)
        /\ currentMemoryBytes' = Release(estimateScanSize(sh.scan))
        /\ dequeuedLog' = Append(dequeuedLog, sh.scan.seq)
        /\ ret' = [op |-> op, ok |-> TRUE, scan |-> sh.scan, events |-> {}, reason |-> "none"]
        /\ UNCHANGED <<maxQueueSize, maxMemoryBytes, acceptedLog, cleared>>

(* dequeue on a non-empty queue; the caller names the method in ret *)
DequeueSome(op) ==
    LET sh == Shift(queue)
    IN  /\ queue # <<>>
        /\ queue' = sh.rest
        /\ stats' = CountProcessed(stats)
        /\ currentMemoryBytes' = Release(estimateScanSize(sh.scan))
        /\ dequeuedLog' = Append(dequeuedLog, sh.scan.seq)
        /\ ret' = [op |-> op, ok |-> TRUE, scan |-> sh.scan, events |-> {}, reason |-> "none"]
        /\ UNCHANGED <<maxQueueSize, maxMemoryBytes, acceptedLog, cleared>>

DequeueNone(op) ==
    /\ queue = <<>>
    /\ ret' = [op |-> op, ok |-> FALSE, scan |-> Null, events |-> {}, reason |-> "none"]
    /\ UNCHANGED <<maxQueueSize, maxMemoryBytes, queue, currentMemoryBytes, stats,
                   acceptedLog, dequeuedLog, cleared>>

dequeue ==
    /\ \/ DequeueSome("dequeue")
       \/ DequeueNone("dequeue")
    /\ UNCHANGED draining

clear ==
    /\ queue' = <<>>
    /\ currentMemoryBytes' = 0
    /\ cleared' = TRUE
    /\ ret' = [op |-> "clear", ok |-> TRUE, scan |-> Null, events |-> {}, reason |-> "none"]
    /\ UNCHANGED <<maxQueueSize, maxMemoryBytes, stats, draining, acceptedLog, dequeuedLog>>

(* drain(): calling it creates the generator; each next() runs the loop to
   its next yield (one dequeue) or, on an empty queue, to its end *)
drainCall ==
    /\ ~draining
    /\ draining' = TRUE
    /\ ret' = [op |-> "drain", ok |-> TRUE, scan |-> Null, events |-> {}, reason |-> "none"]
    /\ UNCHANGED <<maxQueueSize, maxMemoryBytes, queue, currentMemoryBytes, stats,
                   acceptedLog, dequeuedLog, cleared>>

drainNext ==
    /\ draining
    /\ \/ DequeueSome("drain.next") /\ UNCHANGED draining
       \/ DequeueNone("drain.next") /\ draining' = FALSE

----------------------------------------------------------------------------
(* SpecBuf: one BufferManager, any sequence of calls *)

BufScans == {MkScan(nextSeq + 1, "scan", "session", "device", 1000, p) : p \in PointCounts}

InitStats == [received |-> 0, processed |-> 0, dropped |-> 0,
              peakQueueSize |-> 0, peakMemoryBytes |-> 0]

InitRet == [op |-> "new", ok |-> TRUE, scan |-> Null, events |-> {}, reason |-> "none"]

InitBuffer(qs, mb) ==
    /\ maxQueueSize = qs
    /\ maxMemoryBytes = mb
    /\ queue = <<>>
    /\ currentMemoryBytes = 0
    /\ stats = InitStats
    /\ draining = FALSE
    /\ ret = InitRet
    /\ acceptedLog = <<>>
    /\ dequeuedLog = <<>>
    /\ cleared = FALSE

InitRest ==
    /\ procStats = [received |-> 0, processed |-> 0, failed |-> 0]
    /\ processingInterval = FALSE
    /\ isShuttingDown = FALSE
    /\ shutdownPc = "idle"
    /\ inflight = <<>>
    /\ files = <<>>
    /\ scans = {}
    /\ sessions = <<>>
    /\ dbLog = <<>>
    /\ conns = <<>>
    /\ clients = <<>>
    /\ outbox = {}
    /\ upgrades = <<>>
    /\ nextSeq = 0
    /\ processLog = <<>>
    /\ rejected = 0
    /\ atShutdown = <<>>
    /\ appShutdowns = <<>>

InitBuf ==
    /\ \E qs \in QueueSizes, mb \in MemoryLimits : InitBuffer(qs, mb)
    /\ InitRest

restOfBuf == <<procVars, storeVars, wsVars>>

BufEnqueue ==
    /\ stats.received < MaxReceived
    /\ \E scan \in BufScans : enqueue(scan)
    /\ nextSeq' = nextSeq + 1
    /\ UNCHANGED restOfBuf

BufDequeue == dequeue /\ UNCHANGED <<restOfBuf, nextSeq>>

BufClear == clear /\ UNCHANGED <<restOfBuf, nextSeq>>

BufDrainCall == drainCall /\ UNCHANGED <<restOfBuf, nextSeq>>

BufDrainNext == drainNext /\ UNCHANGED <<restOfBuf, nextSeq>>

NextBuf ==
    \/ BufEnqueue
    \/ BufDequeue
    \/ BufClear
    \/ BufDrainCall
    \/ BufDrainNext

SpecBuf == InitBuf /\ [][NextBuf]_vars

----------------------------------------------------------------------------
(* FileWriter *)

HourMs == 3600000

(* getDatePath: the YYYY/MM/DD/HH directory of a timestamp is determined by
   the hour the timestamp falls in (local time at a whole-hour offset) *)
getDatePath(timestamp) == timestamp \div HourMs

(* join(datePath, `${scanId}.msgpack`) *)
RelativePath(scan) == <<getDatePath(scan.timestamp), scan.scanId>>

(* encode(scan): the MessagePack bytes determine every field of the scan *)
Encode(scan) ==
    [scanId |-> scan.scanId, sessionId |-> scan.sessionId, deviceId |-> scan.deviceId,
     timestamp |-> scan.timestamp, points |-> scan.points]

(* buffer.length: a map of three float64 per point after the scalar fields *)
EncodedSize(scan) == scan.points * 34 + 64

(* writeScan that returned: writeFileSync creates or overwrites the file *)
WriteFile(fs, scan) ==
    [p \in DOMAIN fs \cup {RelativePath(scan)} |->
        IF p = RelativePath(scan) THEN Encode(scan) ELSE fs[p]]

----------------------------------------------------------------------------
(* ScanDatabase *)

NoEndTime == 0     \* sessions.endTime is NULL

(* insertSessionStmt: INSERT ... VALUES (?, ?, ?, 0, 0, 0, ?) ON CONFLICT DO NOTHING *)
InsertSession(ss, m) ==
    IF m.sessionId \in DOMAIN ss THEN ss
    ELSE [k \in DOMAIN ss \cup {m.sessionId} |->
            IF k = m.sessionId
            THEN [sessionId |-> m.sessionId, deviceId |-> m.deviceId,
                  startTime |-> m.timestamp, endTime |-> NoEndTime,
                  scanCount |-> 0, totalPoints |-> 0, totalSizeBytes |-> 0]
            ELSE ss[k]]

ScanIdTakenNever(rows, m) == FALSE

(* insertScanStmt violates UNIQUE(scanId) *)
ScanIdTaken(rows, m) == \E r \in rows : r.scanId = m.scanId

UpdateSessionNoPoints(ss, m) ==
    [ss EXCEPT ![m.sessionId] =
        [@ EXCEPT !.scanCount = @ + 1,
                  !.totalSizeBytes = @ + m.sizeBytes,
                  !.endTime = m.timestamp]]

(* updateSessionStmt *)
UpdateSession(ss, m) ==
    [ss EXCEPT ![m.sessionId] =
        [@ EXCEPT !.scanCount = @ + 1,
                  !.totalPoints = @ + m.pointCount,
                  !.totalSizeBytes = @ + m.sizeBytes,
                  !.endTime = m.timestamp]]

(* insertScan(m) run as far as statement failAt, which throws (0: none does).
   The three statements autocommit one by one; the second also throws when
   the scanId is taken. *)
InsertScanFails(m, failAt) ==
    \/ failAt \in {1, 3}
    \/ failAt = 2
    \/ ScanIdTaken(scans, m)

insertScan(m, failAt) ==
    LET s1 == IF failAt = 1 THEN sessions ELSE InsertSession(sessions, m)
        stop2 == failAt = 1 \/ failAt = 2 \/ ScanIdTaken(scans, m)
        stop3 == stop2 \/ failAt = 3
    IN  /\ scans' = IF stop2 THEN scans ELSE scans \cup {m}
        /\ sessions' = IF stop3 THEN s1 ELSE UpdateSession(s1, m)

(* the rows that DELETE FROM scans WHERE timestamp < ? removes *)
OldScans(rows, beforeTimestamp) ==
    {r \in rows : r.timestamp < beforeTimestamp}

Undefined == 0 - 1     \* the value read from a property that an object lacks

(* this.db.changes after the DELETE has removed the rows of removed.  The
   Database class of bun:sqlite documents changes as a field of the value
   that run() returns, not as a property of the connection: where the
   connection has no such property the read gives undefined. *)
DbChanges(removed) == {Cardinality(removed), Undefined}

deleteOldScansWithSessions(beforeTimestamp, threw) ==
    /\ scans' = IF threw THEN scans ELSE scans \ OldScans(scans, beforeTimestamp)
    /\ sessions' = [k \in {r.sessionId : r \in scans'} |-> sessions[k]]

(* deleteOldScans(beforeTimestamp); threw: the statement throws and the catch
   block returns 0 *)
deleteOldScans(beforeTimestamp, threw) ==
    /\ scans' = IF threw THEN scans ELSE scans \ OldScans(scans, beforeTimestamp)
    /\ sessions' = sessions

(* the return value of deleteOldScans *)
DeleteReturn(threw, changes) == IF threw THEN 0 ELSE changes

----------------------------------------------------------------------------
(* LiDARProcessor *)

IdleIgnoringInflight == shutdownPc \in {"idle"}

(* JavaScript runs a task and the promise continuations it leaves behind to
   the end before the next timer, socket or signal callback: such a callback
   starts only when no processNext is suspended and shutdown() is not in its
   drain loop. *)
Idle == inflight = <<>> /\ shutdownPc \in {"idle"}

validateScan(scan) ==
    /\ scan.scanId # "" /\ scan.sessionId # "" /\ scan.deviceId # ""
    /\ scan.timestamp > 0
    /\ scan.points \notin {NoPoints, NotArray}
    /\ scan.points # 0
    /\ scan.firstPoint = "numeric"

(* validateScan throws a TypeError instead of returning: the checks before the
   sample of the first point pass and points[0] is null or undefined *)
validateScanThrows(scan) ==
    /\ scan.scanId # "" /\ scan.sessionId # "" /\ scan.deviceId # ""
    /\ scan.timestamp > 0
    /\ scan.points \notin {NoPoints, NotArray}
    /\ scan.points # 0
    /\ scan.firstPoint = "null"

(* submit(scan); its return value is EnqueueAccepts(scan) when the scan is
   valid; when validateScan throws, submit throws before it counts or
   enqueues anything *)
SubmitAccepts(scan) == validateScan(scan) /\ EnqueueAccepts(scan)

submit(scan) ==
    IF ~validateScan(scan)
    THEN UNCHANGED <<bufVars, procStats, rejected>>
    ELSE /\ enqueue(scan)
         /\ procStats' = [procStats EXCEPT
                !.received = @ + 1,
                !.failed = IF EnqueueAccepts(scan) THEN @ ELSE @ + 1]
         /\ rejected' = IF EnqueueAccepts(scan) THEN rejected ELSE rejected + 1

(* processNext up to its await: the guard, the dequeue and the synchronous
   body of writeScan, which returns a settled promise *)
processNext ==
    IF isShuttingDown
    THEN UNCHANGED <<bufVars, inflight, files>>
    ELSE \/ /\ DequeueNone("dequeue")
            /\ UNCHANGED <<draining, inflight, files>>
         \/ /\ DequeueSome("dequeue")
            /\ UNCHANGED draining
            /\ \E written \in BOOLEAN :
                 /\ files' = IF written THEN WriteFile(files, Head(queue)) ELSE files
                 /\ inflight' = Append(inflight,
                        [scan |-> Head(queue), written |-> written])

ScanMetadataOf(scan) ==
    [scanId |-> scan.scanId, sessionId |-> scan.sessionId, deviceId |-> scan.deviceId,
     timestamp |-> scan.timestamp, filePath |-> RelativePath(scan),
     sizeBytes |-> EncodedSize(scan), pointCount |-> scan.points]

CountFailureTwice(st) == [st EXCEPT !.failed = @ + 2]

CountFailure(st) == [st EXCEPT !.failed = @ + 1]

BlobWrittenAlways(job) == TRUE

(* the promise of writeScan was fulfilled, not rejected *)
BlobWritten(job) == job.written

(* processNext after its await, for the i-th of the suspended invocations *)
ProcessNextResumeAt(i) ==
    /\ i \in 1..Len(inflight)
    /\ LET job == inflight[i]
           m == ScanMetadataOf(job.scan)
       IN  /\ inflight' = SubSeq(inflight, 1, i - 1) \o
                          SubSeq(inflight, i + 1, Len(inflight))
           /\ IF ~BlobWritten(job)
              THEN /\ procStats' = CountFailure(procStats)
                   /\ processLog' = Append(processLog,
                          [seq |-> job.scan.seq, outcome |-> "failed"])
                   /\ UNCHANGED <<scans, sessions>>
              ELSE \E failAt \in 0..3 :
                   /\ insertScan(m, failAt)
                   /\ IF InsertScanFails(m, failAt)
                      THEN /\ procStats' = CountFailure(procStats)
                           /\ processLog' = Append(processLog,
                                  [seq |-> job.scan.seq, outcome |-> "failed"])
                      ELSE /\ procStats' = [procStats EXCEPT !.processed = @ + 1]
                           /\ processLog' = Append(processLog,
                                  [seq |-> job.scan.seq, outcome |-> "stored"])
    /\ UNCHANGED <<bufVars, processingInterval, isShuttingDown, shutdownPc,
                   rejected, atShutdown, appShutdowns, files, dbLog, wsVars, nextSeq>>

(* the invocation whose promise settled first resumes: with the FileWriter of
   the repository there is never more than one *)
ProcessNextResume == ProcessNextResumeAt(1)

(* a firing of the setInterval timer of start() *)
Tick ==
    /\ Idle
    /\ processingInterval
    /\ processNext
    /\ UNCHANGED <<procStats, processingInterval, isShuttingDown, shutdownPc,
                   processLog, rejected, atShutdown, appShutdowns, scans, sessions, dbLog, wsVars,
                   nextSeq>>

(* shutdown() up to the for await loop, or to its end when nothing is queued *)
shutdown ==
    /\ Idle
    /\ isShuttingDown' = TRUE
    /\ processingInterval' = FALSE
    /\ atShutdown' = queue
    /\ IF Len(queue) > 0
       THEN drainCall /\ shutdownPc' = "next"
       ELSE UNCHANGED bufVars /\ shutdownPc' = "done"
    /\ UNCHANGED <<procStats, inflight, processLog, rejected, storeVars, wsVars, nextSeq>>

(* a call of shutdown() *)
ShutdownStart == shutdown /\ UNCHANGED appShutdowns

(* the loop asks the generator of drain() for the next scan *)
ShutdownDrainNext ==
    /\ shutdownPc = "next"
    /\ inflight = <<>>
    /\ drainNext
    /\ shutdownPc' = IF queue # <<>> THEN "body" ELSE "done"
    /\ UNCHANGED <<procStats, processingInterval, isShuttingDown, inflight,
                   processLog, rejected, atShutdown, appShutdowns, storeVars, wsVars, nextSeq>>

(* the loop body: await this.processNext() *)
ShutdownBody ==
    /\ shutdownPc = "body"
    /\ processNext
    /\ shutdownPc' = "next"
    /\ UNCHANGED <<procStats, processingInterval, isShuttingDown,
                   processLog, rejected, atShutdown, appShutdowns, scans, sessions, dbLog, wsVars,
                   nextSeq>>

----------------------------------------------------------------------------
(* Authentication of upgrade requests (middleware/auth.ts) *)

(* An upgrade request: the query parameters apiKey, api_key, deviceId and
   device_id of its URL and its headers x-api-key and x-device-id.  "" stands
   for a parameter or header that is absent or empty: the code tests both
   with !value and joins alternatives with ||. *)
Keys      == {"", "secret", "wrong"}
DeviceIds == {"", "devA", "devB"}
Requests  == [qApiKey : Keys, qApi_key : Keys, hApiKey : Keys,
              hDeviceId : DeviceIds, qDeviceId : DeviceIds, qDevice_id : DeviceIds]

MkRequest(qApiKey, hApiKey, hDeviceId, qDeviceId) ==
    [qApiKey |-> qApiKey, qApi_key |-> "", hApiKey |-> hApiKey,
     hDeviceId |-> hDeviceId, qDeviceId |-> qDeviceId, qDevice_id |-> ""]

API_KEY  == "secret"      \* env.API_KEY
NoDevice == "null"        \* deviceId: null of an AuthResult

(* a || b of JavaScript on strings that may be undefined *)
OrElse(a, b) == IF a # "" THEN a ELSE b

ExtractApiKey(request) ==
    LET apiKeyFromQuery  == OrElse(request.qApiKey, request.qApi_key)
        apiKeyFromHeader == request.hApiKey
    IN  OrElse(apiKeyFromQuery, apiKeyFromHeader)

ExtractDeviceIdQueryFirst(request) ==
    LET deviceIdFromHeader == request.hDeviceId
        deviceIdFromQuery  == OrElse(request.qDeviceId, request.qDevice_id)
    IN  OrElse(deviceIdFromQuery, deviceIdFromHeader)

ExtractDeviceId(request) ==
    LET deviceIdFromHeader == request.hDeviceId
        deviceIdFromQuery  == OrElse(request.qDeviceId, request.qDevice_id)
    IN  OrElse(deviceIdFromHeader, deviceIdFromQuery)

Refusal(error) == [authenticated |-> FALSE, deviceId |-> NoDevice, error |-> error]

authenticateConnectionDeviceFirst(request) ==
    LET apiKey   == ExtractApiKey(request)
        deviceId == ExtractDeviceId(request)
    IN  IF deviceId = "" THEN Refusal("Missing device ID")
        ELSE IF apiKey = "" THEN Refusal("Missing API key")
        ELSE IF apiKey # API_KEY THEN Refusal("Invalid API key")
        ELSE [authenticated |-> TRUE, deviceId |-> deviceId, error |-> ""]

authenticateConnection(request) ==
    LET apiKey   == ExtractApiKey(request)
        deviceId == ExtractDeviceId(request)
    IN  IF apiKey = "" THEN Refusal("Missing API key")
        ELSE IF apiKey # API_KEY THEN Refusal("Invalid API key")
        ELSE IF deviceId = "" THEN Refusal("Missing device ID")
        ELSE [authenticated |-> TRUE, deviceId |-> deviceId, error |-> ""]

----------------------------------------------------------------------------
(* LiDARWebSocketServer *)

Devices         == {"devA"}                 \* device ids that connect in Spec
DeclaredDevices == Devices \cup {"devB"}    \* device ids a frame may declare
ScanIds         == {"scan1", "scan2"}

(* what decode(buffer) can return for a frame that decodes: scans that leave
   deviceId to the connection (two with the same scanId and different points,
   one of a later hour), scans that declare a deviceId, and scans that
   validateScan refuses: without scanId, without sessionId, without a
   timestamp, without points, with points that are not an array, with an
   empty points array, with a first point that lacks a numeric coordinate,
   with a first point that is null *)
Frames ==
    {MkScan(nextSeq + 1, id, "sess1", "", 1000, 10) : id \in ScanIds}
    \cup {MkScan(nextSeq + 1, "scan1", "sess1", "", 1000, 50),
          MkScan(nextSeq + 1, "scan1", "sess1", "", HourMs + 1000, 10)}
    \cup {MkScan(nextSeq + 1, "scan1", "sess1", d, 1000, 10) : d \in DeclaredDevices}
    \cup {MkScan(nextSeq + 1, "scan1", "sess1", "", 0, 10),
          MkScan(nextSeq + 1, "scan1", "sess1", "", 1000, 0)}
    \cup {MkScan(nextSeq + 1, "", "sess1", "", 1000, 10),
          MkScan(nextSeq + 1, "scan1", "", "", 1000, 10),
          MkScan(nextSeq + 1, "scan1", "sess1", "", 1000, NoPoints),
          MkScan(nextSeq + 1, "scan1", "sess1", "", 1000, NotArray),
          [MkScan(nextSeq + 1, "scan1", "sess1", "", 1000, 10)
              EXCEPT !.firstPoint = "other"],
          [MkScan(nextSeq + 1, "scan1", "sess1", "", 1000, 10)
              EXCEPT !.firstPoint = "null"]}

Welcome(ws) == [ws |-> ws, type |-> "ack", scanId |-> "", seq |-> 0,
                stored |-> FALSE, error |-> "", welcome |-> TRUE]

Ack(ws, scan, accepted) ==
    [ws |-> ws, type |-> "ack", scanId |-> scan.scanId, seq |-> scan.seq,
     stored |-> accepted, error |-> "", welcome |-> FALSE]

ErrorEnvelope(ws, error) ==
    [ws |-> ws, type |-> "error", scanId |-> "", seq |-> nextSeq + 1,
     stored |-> FALSE, error |-> error, welcome |-> FALSE]

(* sendMessage for each of the envelopes a handler sends: only an open socket
   is written to *)
sendMessage(ws, messages) ==
    outbox' = IF conns[ws].open THEN outbox \cup messages ELSE outbox

RegistryKeepFirst(registry, deviceId, ws) ==
    [k \in DOMAIN registry \cup {deviceId} |->
        IF k \in DOMAIN registry THEN registry[k] ELSE ws]

(* this.clients.set(deviceId, client) *)
RegistrySet(registry, deviceId, ws) ==
    [k \in DOMAIN registry \cup {deviceId} |->
        IF k = deviceId THEN ws ELSE registry[k]]

(* handleConnection for the socket of an upgrade that verifyClient let pass *)
HandleConnection(deviceId) ==
    LET ws == Len(conns) + 1
    IN  /\ conns' = Append(conns, [deviceId |-> deviceId, scansReceived |-> 0,
                                   lastScanAt |-> 0, open |-> TRUE])
        /\ clients' = RegistrySet(clients, deviceId, ws)
        /\ outbox' = outbox \cup {Welcome(ws)}
        /\ UNCHANGED <<bufVars, procVars, storeVars, nextSeq>>

VerifyClientAcceptsAll(request) ==
    LET auth == authenticateConnection(request)
    IN  /\ Idle
        /\ upgrades' = Append(upgrades, [request |-> request, auth |-> auth,
                                         ws |-> Len(conns) + 1])
        /\ HandleConnection(auth.deviceId)

(* an upgrade request: verifyClient, and handleConnection when it calls back
   with true *)
VerifyClient(request) ==
    LET auth == authenticateConnection(request)
    IN  /\ Idle
        /\ IF ~auth.authenticated
           THEN /\ upgrades' = Append(upgrades, [request |-> request, auth |-> auth,
                                                 ws |-> 0])
                /\ UNCHANGED <<bufVars, procVars, storeVars, conns, clients,
                               outbox, nextSeq>>
           ELSE /\ upgrades' = Append(upgrades, [request |-> request, auth |-> auth,
                                                 ws |-> Len(conns) + 1])
                /\ HandleConnection(auth.deviceId)

HandleUndecodableClosing(ws) ==
    /\ sendMessage(ws, {ErrorEnvelope(ws, "Failed to process scan")})
    /\ conns' = [conns EXCEPT ![ws].open = FALSE]
    /\ UNCHANGED <<bufVars, procVars, storeVars, clients, upgrades>>

(* handleMessage for a frame that decode() throws on: the catch block *)
HandleUndecodable(ws) ==
    /\ sendMessage(ws, {ErrorEnvelope(ws, "Failed to process scan")})
    /\ UNCHANGED <<bufVars, procVars, storeVars, conns, clients, upgrades>>

DeviceMismatchNever(scan, client) == FALSE

DeviceMismatch(scan, client) == scan.deviceId # client.deviceId

AfterSubmitNoThrow(ws, scan, accepted) == {Ack(ws, scan, accepted)}

(* what handleMessage sends after submit returned: the ack, and the error of
   the catch block when the log call that follows the ack reads the length of
   an absent points field and throws *)
AfterSubmit(ws, scan, accepted) ==
    {Ack(ws, scan, accepted)}
    \cup (IF scan.points = NoPoints
          THEN {ErrorEnvelope(ws, "Failed to process scan")} ELSE {})

(* scan0 with the deviceId of the connection filled in when it has none *)
Backfill(scan0, client) ==
    IF scan0.deviceId = "" THEN [scan0 EXCEPT !.deviceId = client.deviceId]
    ELSE scan0

(* handleMessage for a frame that decodes to scan0 *)
HandleScan(ws, scan0) ==
    LET client == conns[ws]
        scan == Backfill(scan0, client)
    IN  IF DeviceMismatch(scan, client)
        THEN /\ sendMessage(ws, {ErrorEnvelope(ws, "Device ID mismatch")})
             /\ UNCHANGED <<bufVars, procVars, storeVars, conns, clients, upgrades>>
        ELSE IF validateScanThrows(scan)
        THEN /\ submit(scan)
             /\ sendMessage(ws, {ErrorEnvelope(ws, "Failed to process scan")})
             /\ UNCHANGED <<processingInterval, isShuttingDown, shutdownPc, inflight,
                            processLog, atShutdown, appShutdowns, storeVars, conns, clients, upgrades>>
        ELSE /\ submit(scan)
             /\ conns' = [conns EXCEPT ![ws].scansReceived = @ + 1,
                                       ![ws].lastScanAt = nextSeq + 1]
             /\ sendMessage(ws, AfterSubmit(ws, scan, SubmitAccepts(scan)))
             /\ UNCHANGED <<processingInterval, isShuttingDown, shutdownPc, inflight,
                            processLog, atShutdown, appShutdowns, storeVars, clients, upgrades>>

HandleMessage(ws) ==
    /\ Idle
    /\ nextSeq < MaxFrames
    /\ ws \in DOMAIN conns
    /\ conns[ws].open
    /\ nextSeq' = nextSeq + 1
    /\ \/ HandleUndecodable(ws)
       \/ \E scan0 \in Frames : HandleScan(ws, scan0)

HandleDisconnectClearing(ws) ==
    /\ Idle
    /\ ws \in DOMAIN conns
    /\ conns[ws].open
    /\ conns' = [conns EXCEPT ![ws].open = FALSE]
    /\ clients' = [k \in DOMAIN clients \ {conns[ws].deviceId} |-> clients[k]]
    /\ clear
    /\ UNCHANGED <<procVars, storeVars, outbox, upgrades, nextSeq>>

(* the close event of a socket *)
HandleDisconnect(ws) ==
    /\ Idle
    /\ ws \in DOMAIN conns
    /\ conns[ws].open
    /\ conns' = [conns EXCEPT ![ws].open = FALSE]
    /\ clients' = [k \in DOMAIN clients \ {conns[ws].deviceId} |-> clients[k]]
    /\ UNCHANGED <<bufVars, procVars, storeVars, outbox, upgrades, nextSeq>>

----------------------------------------------------------------------------
(* Spec: the application after LiDARReceiver.start() *)

PipelineQueueSize   == 2
PipelineMemoryBytes == 5000

Init ==
    /\ InitBuffer(PipelineQueueSize, PipelineMemoryBytes)
    /\ procStats = [received |-> 0, processed |-> 0, failed |-> 0]
    /\ processingInterval = TRUE
    /\ isShuttingDown = FALSE
    /\ shutdownPc = "idle"
    /\ inflight = <<>>
    /\ files = <<>>
    /\ scans = {}
    /\ sessions = <<>>
    /\ dbLog = <<>>
    /\ conns = <<>>
    /\ clients = <<>>
    /\ outbox = {}
    /\ upgrades = <<>>
    /\ nextSeq = 0
    /\ processLog = <<>>
    /\ rejected = 0
    /\ atShutdown = <<>>
    /\ appShutdowns = <<>>

(* the upgrade requests of Spec: the devices present their key and id *)
PipelineRequests == {MkRequest("", API_KEY, d, "") : d \in Devices}

Next ==
    \/ \E request \in PipelineRequests :
          Len(upgrades) < MaxSockets /\ VerifyClient(request)
    \/ \E ws \in 1..MaxSockets : HandleMessage(ws)
    \/ \E ws \in 1..MaxSockets : HandleDisconnect(ws)
    \/ Tick
    \/ ProcessNextResume
    \/ ShutdownStart
    \/ ShutdownDrainNext
    \/ ShutdownBody

Spec == Init /\ [][Next]_vars

----------------------------------------------------------------------------
(* Properties of the BufferManager, checked under SpecBuf *)

SeqsOf(q) == [i \in 1..Len(q) |-> q[i].seq]

(* C3: in every reachable state size() <= maxQueueSize and
   currentMemoryBytes <= maxMemoryBytes *)
QueueWithinBounds ==
    /\ Len(queue) <= maxQueueSize
    /\ currentMemoryBytes <= maxMemoryBytes

(* scenario 1: three accepted scans fill a queue of three, the fourth is refused *)
QueueFullWitness ==
    /\ maxQueueSize = 3
    /\ Len(queue) = 3
    /\ ret.op = "enqueue" /\ ~ret.ok /\ ret.reason = "count"
    /\ stats.received = 4

(* C4: currentMemoryBytes is exactly the sum over the queued scans of
   points.length * 20 + 1000 *)
MemoryMatchesQueue ==
    currentMemoryBytes = SumSeq([i \in 1..Len(queue) |-> queue[i].points * 20 + 1000])

MemoryMatchesQueueWitness ==
    /\ Len(queue) >= 2
    /\ stats.dropped > 0
    /\ stats.processed > 0
    /\ cleared
    /\ \E i \in 1..Len(queue) : queue[i].points > 0

(* C5: dequeue returns the oldest accepted scan not yet dequeued, so that the
   dequeued scans are a prefix of the accepted ones and what is queued is the
   rest, in order; on an empty queue it returns null and changes nothing *)
FifoOrder ==
    /\ [](~cleared => /\ IsPrefix(dequeuedLog, acceptedLog)
                      /\ acceptedLog = dequeuedLog \o SeqsOf(queue))
    /\ [][BufDequeue =>
            IF queue = <<>>
            THEN /\ ~ret'.ok /\ ret'.scan = Null
                 /\ UNCHANGED <<queue, currentMemoryBytes, stats, dequeuedLog>>
            ELSE /\ ret'.ok /\ ret'.scan = queue[1]
                 /\ queue' = SubSeq(queue, 2, Len(queue))
                 /\ (~cleared => ret'.scan.seq = acceptedLog[Len(dequeuedLog) + 1])]_vars

FifoOrderWitness ==
    /\ ~cleared
    /\ Len(dequeuedLog) >= 2
    /\ queue # <<>>
    /\ stats.dropped > 0
    /\ ret.op = "dequeue" /\ ret.ok

(* C6: once every queued entry has been removed by dequeue or drain(), whatever
   was accepted and whatever was refused in between, currentMemoryBytes = 0
   and size() = 0 *)
Conservation ==
    /\ queue = <<>> => currentMemoryBytes = 0
    /\ (~cleared /\ Len(dequeuedLog) = Len(acceptedLog)) =>
            Len(queue) = 0 /\ currentMemoryBytes = 0
    /\ (ret.op = "drain.next" /\ ~ret.ok) => Len(queue) = 0 /\ currentMemoryBytes = 0

ConservationWitness ==
    /\ ~cleared
    /\ ret.op = "drain.next" /\ ~ret.ok
    /\ Len(dequeuedLog) >= 2
    /\ stats.dropped > 0
    /\ currentMemoryBytes = 0

(* C7: enqueue returns false exactly when currentBytes + estimatedBytes >
   maxBytes (the memory check, made first) or else when the count has reached
   maxCount; otherwise it returns true and appends the scan *)
EnqueueDecision ==
    [][BufEnqueue =>
        LET scan == ret'.scan
            est == scan.points * 20 + 1000
            overMemory == currentMemoryBytes + est > maxMemoryBytes
            overCount == Len(queue) >= maxQueueSize
        IN  /\ ret'.ok = ~(overMemory \/ overCount)
            /\ ret'.reason = IF overMemory THEN "memory"
                             ELSE IF overCount THEN "count" ELSE "none"
            /\ ret'.ok => /\ queue' = Append(queue, scan)
                          /\ currentMemoryBytes' = currentMemoryBytes + est]_vars

(* a scan that brings the byte total to exactly maxMemoryBytes was accepted *)
EnqueueDecisionWitness ==
    /\ ret.op = "enqueue" /\ ret.ok
    /\ currentMemoryBytes = maxMemoryBytes
    /\ stats.dropped > 0

(* C8: an enqueue that returns false leaves the queue's contents, order, size
   and currentMemoryBytes as they were, and a refused scan never shows up in
   the queue later *)
RejectionAdmitsNothing ==
    /\ [][(BufEnqueue /\ ~ret'.ok) => UNCHANGED <<queue, currentMemoryBytes>>]_vars
    /\ [](\A i \in 1..Len(queue) : queue[i].seq \in Range(acceptedLog))

(* scenario 2: maxBytes = 3000, a scan of 50 points is queued, a scan of 10
   points is refused and currentBytes stays 2000 *)
RejectionWitness ==
    /\ maxMemoryBytes = 3000
    /\ Len(queue) = 1 /\ queue[1].points = 50
    /\ ret.op = "enqueue" /\ ~ret.ok /\ ret.reason = "memory" /\ ret.scan.points = 10
    /\ currentMemoryBytes = 2000

----------------------------------------------------------------------------
(* Properties of the pipeline, checked under Spec *)

ProcessedSeqs == {processLog[i].seq : i \in 1..Len(processLog)}

FailedEntries == {i \in 1..Len(processLog) : processLog[i].outcome = "failed"}

(* C1: when no scan is being processed, a metadata row exists for a scan if
   and only if a blob file exists at the path recorded in the row *)
MetadataIffBlob ==
    inflight = <<>> =>
        /\ \A r \in scans : r.filePath \in DOMAIN files
        /\ \A p \in DOMAIN files : \E r \in scans : r.filePath = p

(* C2: when shutdown() completes, every scan that was queued when it started
   has gone through the per-scan path (blob write, then metadata insert) *)
ShutdownProcessesQueue ==
    shutdownPc = "done" =>
        \A i \in 1..Len(atShutdown) : atShutdown[i].seq \in ProcessedSeqs

(* C9: a scan whose blob write or metadata insert fails is counted in
   stats.failed exactly once, is not put back in the queue and is not
   processed again, and the timer keeps dequeuing the scans that follow *)
FailureIsCountedOnceAndFinal ==
    /\ procStats.failed = rejected + Cardinality(FailedEntries)
    /\ \A i, j \in 1..Len(processLog) : processLog[i].seq = processLog[j].seq => i = j
    /\ \A i \in 1..Len(queue) : queue[i].seq \notin ProcessedSeqs
    /\ \A i \in 1..Len(inflight) : inflight[i].scan.seq \notin ProcessedSeqs
    /\ shutdownPc = "idle" => processingInterval /\ ~isShuttingDown
    /\ (Idle /\ queue # <<>>) => ENABLED Tick

(* a failed scan was followed by the processing of a later scan *)
FailureThenProgressWitness ==
    \E i, j \in 1..Len(processLog) :
        /\ i < j
        /\ processLog[i].outcome = "failed"
        /\ processLog[j].outcome = "stored"
        /\ procStats.failed = 1

(* C10: a stored:true ack for a scan is sent only after the scan's blob and
   metadata row have been written *)
StoredAckMeansPersisted ==
    \A m \in outbox :
        (m.type = "ack" /\ ~m.welcome /\ m.stored) =>
            \E i \in 1..Len(processLog) :
                processLog[i].seq = m.seq /\ processLog[i].outcome = "stored"

----------------------------------------------------------------------------
(* Properties of the drain loop, checked under Spec *)

(* C11: the scans complete processing (row inserted or failure recorded) in
   the order in which enqueue accepted them: the processed scans are a prefix
   of the accepted ones, and a scan still queued or in flight was accepted
   after every scan that has completed *)
ProcessingKeepsOrder ==
    /\ IsPrefix([i \in 1..Len(processLog) |-> processLog[i].seq], acceptedLog)
    /\ \A i \in 1..Len(processLog) :
         /\ \A k \in 1..Len(queue) : processLog[i].seq < queue[k].seq
         /\ \A k \in 1..Len(inflight) : processLog[i].seq < inflight[k].scan.seq

(* two scans were queued together and both completed, the first one failing *)
ProcessingKeepsOrderWitness ==
    /\ stats.peakQueueSize = 2
    /\ Len(processLog) = 2
    /\ processLog[1].outcome = "failed"
    /\ processLog[2].outcome = "stored"

(* C12: at most one processNext invocation is between its dequeue and the end
   of its write and insert, and a step removes at most one scan from the
   queue and only when no invocation is in that stretch *)
OneProcessNextAtATime ==
    /\ [](Len(inflight) <= 1)
    /\ [][/\ Len(dequeuedLog') <= Len(dequeuedLog) + 1
          /\ Len(dequeuedLog') > Len(dequeuedLog) => inflight = <<>>
          /\ Tick => Len(queue') >= Len(queue) - 1]_vars

(* an invocation is suspended at its await while another scan waits in the
   queue and the timer is armed *)
OneProcessNextAtATimeWitness ==
    /\ Len(inflight) = 1
    /\ queue # <<>>
    /\ processingInterval

----------------------------------------------------------------------------
(* SpecAuth: upgrade requests of every shape arrive at verifyClient *)

MaxAuthRequests == 1     \* upgrade requests in a behaviour of SpecAuth

NextAuth ==
    \E request \in Requests :
        Len(upgrades) < MaxAuthRequests /\ VerifyClient(request)

SpecAuth == Init /\ [][NextAuth]_vars

(* the values a request carries in its query string, first spelling first *)
QueryApiKey(request)   == OrElse(request.qApiKey, request.qApi_key)
QueryDeviceId(request) == OrElse(request.qDeviceId, request.qDevice_id)

(* C13: the rules are checked in the order missing key, key different from
   the secret, missing device id, and the first that fails names the error;
   the result is authenticated with the device id only when all three pass,
   and unauthenticated with a null device id otherwise *)
AuthRulesInOrder ==
    \A i \in 1..Len(upgrades) :
        LET auth     == upgrades[i].auth
            apiKey   == ExtractApiKey(upgrades[i].request)
            deviceId == ExtractDeviceId(upgrades[i].request)
            refused(error) == /\ ~auth.authenticated
                              /\ auth.deviceId = NoDevice
                              /\ auth.error = error
        IN  /\ apiKey = "" => refused("Missing API key")
            /\ apiKey \notin {"", "secret"} => refused("Invalid API key")
            /\ (apiKey = "secret" /\ deviceId = "") => refused("Missing device ID")
            /\ (apiKey = "secret" /\ deviceId # "") =>
                   auth.authenticated /\ auth.deviceId = deviceId /\ auth.error = ""

(* a request with a wrong key and no device id was reported as invalid key *)
AuthRulesInOrderWitness ==
    \E i \in 1..Len(upgrades) :
        /\ ExtractApiKey(upgrades[i].request) = "wrong"
        /\ ExtractDeviceId(upgrades[i].request) = ""
        /\ upgrades[i].auth.error = "Invalid API key"

(* C14 as stated: for the key and for the device id the query parameter wins
   over the header, so that with a deviceId parameter and an x-device-id
   header of different values the authenticated device id is the parameter's *)
QueryBeforeHeader ==
    \A i \in 1..Len(upgrades) :
        LET request == upgrades[i].request
            auth == upgrades[i].auth
        IN  /\ QueryApiKey(request) # "" =>
                  (auth.error = "Invalid API key" <=> QueryApiKey(request) # "secret")
            /\ (auth.authenticated /\ QueryDeviceId(request) # "") =>
                  auth.deviceId = QueryDeviceId(request)

(* C14 amended: for the key the query parameter wins over the x-api-key
   header; for the device id the x-device-id header wins over the query
   parameter, which is used only when the header is absent or empty *)
KeyQueryFirstDeviceHeaderFirst ==
    \A i \in 1..Len(upgrades) :
        LET request == upgrades[i].request
            auth == upgrades[i].auth
        IN  /\ QueryApiKey(request) # "" =>
                  (auth.error = "Invalid API key" <=> QueryApiKey(request) # "secret")
            /\ (QueryApiKey(request) = "" /\ request.hApiKey # "") =>
                  (auth.error = "Invalid API key" <=> request.hApiKey # "secret")
            /\ (auth.authenticated /\ request.hDeviceId # "") =>
                  auth.deviceId = request.hDeviceId
            /\ (auth.authenticated /\ request.hDeviceId = "") =>
                  auth.deviceId = QueryDeviceId(request)

(* a request with the right key in the query and a wrong one in the header,
   and with different device ids in the header and in the query, was let in
   under the header's device id *)
HeaderDeviceWinsWitness ==
    \E i \in 1..Len(upgrades) :
        LET request == upgrades[i].request
        IN  /\ request.qApiKey = "secret" /\ request.hApiKey = "wrong"
            /\ request.hDeviceId = "devA" /\ request.qDeviceId = "devB"
            /\ upgrades[i].auth.authenticated
            /\ upgrades[i].auth.deviceId = "devA"
            /\ upgrades[i].ws \in DOMAIN conns
            /\ conns[upgrades[i].ws].deviceId = "devA"

----------------------------------------------------------------------------
(* SpecWs: the WebSocket server with several upgrade requests, accepted and
   refused, and the frames of the sockets they open; the drain timer does not
   fire in these behaviours *)

MaxUpgrades == 2     \* upgrade requests in a behaviour of SpecWs

(* devA with key and id in the headers, devB with key in the header and id in
   the query string, a wrong key with a device id, the right key without a
   device id, a device id without a key *)
WsRequests ==
    {MkRequest("", API_KEY, "devA", ""),
     MkRequest("", API_KEY, "", "devB"),
     MkRequest("wrong", "", "devA", ""),
     MkRequest(API_KEY, "", "", ""),
     MkRequest("", "", "devA", "")}

NextWs ==
    \/ \E request \in WsRequests :
          Len(upgrades) < MaxUpgrades /\ VerifyClient(request)
    \/ \E ws \in 1..MaxUpgrades : HandleMessage(ws)
    \/ \E ws \in 1..MaxUpgrades : HandleDisconnect(ws)

SpecWs == Init /\ [][NextWs]_vars

(* SpecConn: the connections of Spec and their frames while the drain timer
   does not fire *)
NextConn ==
    \/ \E request \in PipelineRequests :
          Len(upgrades) < MaxSockets /\ VerifyClient(request)
    \/ \E ws \in 1..MaxSockets : HandleMessage(ws)
    \/ \E ws \in 1..MaxSockets : HandleDisconnect(ws)

SpecConn == Init /\ [][NextConn]_vars

(* the envelopes of type ack that answer frames of socket ws *)
AcksTo(ws) == {m \in outbox : m.ws = ws /\ m.type = "ack" /\ ~m.welcome}

(* C15: a refused upgrade gets no socket, hence no registry entry, no welcome
   and no frame: every Client, registry entry and envelope belongs to the
   socket of an upgrade that authenticated, under the device id of its
   AuthResult, and every scan submitted came over such a socket *)
RefusedUpgradeGetsNothing ==
    /\ \A i \in 1..Len(upgrades) :
         ~upgrades[i].auth.authenticated => upgrades[i].ws = 0
    /\ \A ws \in DOMAIN conns :
         \E i \in 1..Len(upgrades) :
            /\ upgrades[i].ws = ws
            /\ upgrades[i].auth.authenticated
            /\ upgrades[i].auth.deviceId = conns[ws].deviceId
            /\ ExtractApiKey(upgrades[i].request) = "secret"
    /\ \A d \in DOMAIN clients : d \notin {"", NoDevice} /\ clients[d] \in DOMAIN conns
    /\ \A m \in outbox : m.ws \in DOMAIN conns
    /\ Cardinality({m \in outbox : m.welcome}) =
          Cardinality({i \in 1..Len(upgrades) : upgrades[i].auth.authenticated})
    /\ \A k \in 1..Len(queue) :
          \E m \in outbox : m.seq = queue[k].seq /\ m.ws \in DOMAIN conns
    /\ procStats.received > 0 => conns # <<>>

(* one upgrade was refused, another let in, and a frame of the latter queued *)
RefusedUpgradeWitness ==
    /\ \E i \in 1..Len(upgrades) : ~upgrades[i].auth.authenticated
    /\ Len(conns) = 1
    /\ queue # <<>>

(* C16: every scan queued, in flight or with a metadata row carries the device
   id of the connection whose frame it was; a frame answered with the
   mismatch error changed neither the queue nor the connection, which stays
   open and registered as it was *)
ScansCarryConnectionDevice ==
    /\ [](/\ \A k \in 1..Len(queue) :
               /\ queue[k].deviceId # ""
               /\ \E m \in outbox :
                    /\ m.type = "ack" /\ m.seq = queue[k].seq
                    /\ conns[m.ws].deviceId = queue[k].deviceId
          /\ \A k \in 1..Len(inflight) :
               \E m \in outbox :
                    /\ m.type = "ack" /\ m.seq = inflight[k].scan.seq
                    /\ conns[m.ws].deviceId = inflight[k].scan.deviceId
          /\ \A row \in scans :
               \E m \in outbox :
                    /\ m.type = "ack" /\ m.stored /\ m.scanId = row.scanId
                    /\ conns[m.ws].deviceId = row.deviceId)
    /\ [][(\E m \in outbox' \ outbox : m.error = "Device ID mismatch") =>
             /\ UNCHANGED <<queue, currentMemoryBytes, stats, procStats,
                            conns, clients>>
             /\ \A m \in outbox' \ outbox : conns'[m.ws].open]_vars

(* a frame declaring another device was answered with the mismatch error, and
   the one frame submitted from the same, still open connection has its row
   under the connection's device id *)
ScansCarryConnectionDeviceWitness ==
    /\ \E m \in outbox : m.error = "Device ID mismatch" /\ m.seq = 1 /\ conns[m.ws].open
    /\ \E row \in scans : row.deviceId = "devA"
    /\ procStats.received = 1

(* socket ws received a frame that decodes to scan0, and handleMessage ran *)
FrameHandled(ws, scan0) == nextSeq' = nextSeq + 1 /\ HandleScan(ws, scan0)

(* the frame is one of the validation failures: a required field is absent,
   the timestamp is bad, the points are absent, no array or empty, the first
   point is invalid, or the declared device is not the connection's *)
FailsValidation(ws, scan0) ==
    \/ scan0.deviceId \notin {"", conns[ws].deviceId}
    \/ scan0.scanId = "" \/ scan0.sessionId = ""
    \/ scan0.timestamp <= 0
    \/ scan0.points <= 0
    \/ scan0.firstPoint # "numeric"

(* C17 as stated: every validation failure, the device mismatch included, is
   answered with an ack with stored=false for the scanId and with no error
   envelope *)
ValidationFailureIsAcked ==
    [][\A ws \in DOMAIN conns : \A scan0 \in Frames :
          (FrameHandled(ws, scan0) /\ FailsValidation(ws, scan0)) =>
              \A m \in outbox' \ outbox :
                  /\ m.type = "ack" /\ ~m.stored
                  /\ m.scanId = scan0.scanId /\ m.ws = ws]_vars

(* C17 amended: a frame that validateScan refuses by returning false is
   answered with an ack with stored=false for its scanId, followed by an
   error envelope when the points field is absent; a device mismatch and a
   first point that is null are answered with an error envelope and no ack *)
ValidationFailureReplies ==
    [][\A ws \in DOMAIN conns : \A scan0 \in Frames :
          (FrameHandled(ws, scan0) /\ FailsValidation(ws, scan0)) =>
            LET sent   == outbox' \ outbox
                acks   == {m \in sent : m.type = "ack"}
                errors == {m \in sent : m.type = "error"}
                onlyError ==
                    \/ scan0.deviceId \notin {"", conns[ws].deviceId}
                    \/ /\ scan0.scanId # "" /\ scan0.sessionId # ""
                       /\ scan0.timestamp > 0 /\ scan0.points > 0
                       /\ scan0.firstPoint = "null"
            IN  /\ \A m \in sent : m.ws = ws /\ m.seq = scan0.seq
                /\ \A m \in acks : ~m.stored /\ m.scanId = scan0.scanId
                /\ Cardinality(acks) = IF onlyError THEN 0 ELSE 1
                /\ Cardinality(errors) =
                      IF onlyError \/ scan0.points = NoPoints THEN 1 ELSE 0
                /\ \A m \in errors :
                      m.error = IF scan0.deviceId \notin {"", conns[ws].deviceId}
                                THEN "Device ID mismatch"
                                ELSE "Failed to process scan"]_vars

(* on one connection a frame with an empty points array was answered with
   an ack with stored=false alone, and a frame declaring another device with
   the mismatch error alone *)
ValidationFailureRepliesWitness ==
    \E a, b \in 1..nextSeq :
        /\ \E m \in outbox : /\ m.seq = a /\ m.type = "ack" /\ ~m.stored
                              /\ m.scanId = "scan1" /\ m.ws = 1
        /\ ~\E m \in outbox : m.seq = a /\ m.type = "error"
        /\ \E m \in outbox : m.seq = b /\ m.error = "Device ID mismatch" /\ m.ws = 1
        /\ ~\E m \in outbox : m.seq = b /\ m.type = "ack"
        /\ procStats.received = 0

(* C18: a frame that cannot be decoded is answered with exactly one error
   envelope to its sender, changes neither the queue nor the counters of the
   buffer and of the processor, and leaves the Client and the registry as
   they were, the socket open *)
UndecodableFrameIsHarmless ==
    [][\A ws \in DOMAIN conns :
          (nextSeq' = nextSeq + 1 /\ HandleUndecodable(ws)) =>
              /\ Cardinality(outbox' \ outbox) = 1
              /\ \A m \in outbox' \ outbox :
                    m.type = "error" /\ m.ws = ws /\ m.seq = nextSeq'
              /\ UNCHANGED <<queue, currentMemoryBytes, stats, procStats>>
              /\ conns' = conns /\ conns'[ws].open
              /\ clients' = clients]_vars

(* the first frame of a connection was undecodable and answered with an
   error, the second was accepted and queued, the connection still registered *)
UndecodableThenAcceptedWitness ==
    /\ \E m \in outbox : m.seq = 1 /\ m.type = "error" /\ m.ws = 1
                         /\ m.error = "Failed to process scan"
    /\ \E m \in outbox : m.seq = 2 /\ m.type = "ack" /\ m.stored /\ m.ws = 1
    /\ Len(queue) = 1 /\ queue[1].seq = 2
    /\ "devA" \in DOMAIN clients /\ clients["devA"] = 1
    /\ conns[1].scansReceived = 1

(* the scan that handleMessage passes to submit fails one of the checks of
   validateScan *)
SubmittedInvalid(ws, scan0) ==
    /\ scan0.deviceId \in {"", conns[ws].deviceId}
    /\ \/ scan0.scanId = "" \/ scan0.sessionId = ""
       \/ scan0.timestamp <= 0
       \/ scan0.points <= 0
       \/ scan0.firstPoint # "numeric"

(* C19: submit of a scan that fails validation returns false (the ack of the
   frame says stored=false) and leaves the queue, its byte total and the
   counters of the buffer and of the processor unchanged; hence every queued
   scan has its three identifiers, a non-empty points array and timestamp > 0 *)
InvalidScanReturnsFalse ==
    /\ [](\A k \in 1..Len(queue) :
             /\ queue[k].scanId # "" /\ queue[k].sessionId # ""
             /\ queue[k].deviceId # ""
             /\ queue[k].points > 0 /\ queue[k].timestamp > 0
             /\ queue[k].firstPoint = "numeric")
    /\ [][\A ws \in DOMAIN conns : \A scan0 \in Frames :
            (FrameHandled(ws, scan0) /\ SubmittedInvalid(ws, scan0)) =>
                /\ UNCHANGED <<queue, currentMemoryBytes, stats, procStats,
                               acceptedLog>>
                /\ \E m \in outbox' \ outbox :
                      m.type = "ack" /\ ~m.stored /\ m.seq = scan0.seq]_vars

(* C20: the registry maps a device id to one socket, a Client of that device;
   a connection of a device that already has an entry replaces it: the entry
   refers to the new socket, whose Client starts with scansReceived = 0, the
   Clients of the earlier sockets and the queue stay as they were, and each
   Client counts the frames of its own socket only *)
LastConnectionWins ==
    /\ [](/\ \A d \in DOMAIN clients :
               clients[d] \in DOMAIN conns /\ conns[clients[d]].deviceId = d
          /\ \A ws \in DOMAIN conns :
               conns[ws].scansReceived = Cardinality(AcksTo(ws)))
    /\ [][Len(conns') > Len(conns) =>
            LET ws == Len(conns')
                d  == conns'[ws].deviceId
            IN  /\ ws = Len(conns) + 1
                /\ d \in DOMAIN clients' /\ clients'[d] = ws
                /\ conns'[ws].scansReceived = 0 /\ conns'[ws].open
                /\ \A w \in DOMAIN conns : conns'[w] = conns[w]
                /\ \A k \in DOMAIN clients \ {d} :
                      k \in DOMAIN clients' /\ clients'[k] = clients[k]
                /\ DOMAIN clients' = DOMAIN clients \cup {d}
                /\ UNCHANGED <<queue, currentMemoryBytes, stats, procStats>>]_vars

(* devA connected, had a frame queued, connected again while the first socket
   was open, and a frame of the second socket was queued after the first: the
   entry of devA is the second socket, and each Client has counted one frame *)
LastConnectionWinsWitness ==
    /\ Len(conns) = 2
    /\ conns[1].deviceId = "devA" /\ conns[2].deviceId = "devA"
    /\ conns[1].open /\ conns[2].open
    /\ clients["devA"] = 2
    /\ conns[1].scansReceived = 1 /\ conns[2].scansReceived = 1
    /\ conns[1].lastScanAt = 1 /\ conns[2].lastScanAt = 2
    /\ Len(queue) = 2
    /\ \E m \in AcksTo(2) : m.stored

----------------------------------------------------------------------------
(* Properties of the connection counters and of disconnection *)

(* the ordinals of the frames received on socket ws: each was answered with
   at least one envelope, since a socket receives frames only while open *)
FramesOf(ws) == {m.seq : m \in {e \in outbox : e.ws = ws /\ ~e.welcome}}

(* C21: scansReceived of a connection is the number of frames received on it,
   whatever became of each frame, and lastScanAt is the receipt of the last *)
EveryFrameCounted ==
    \A ws \in DOMAIN conns :
        /\ conns[ws].scansReceived = Cardinality(FramesOf(ws))
        /\ \A seq \in FramesOf(ws) : conns[ws].lastScanAt >= seq

(* C22: the close of a socket changes neither the queue, its byte total, the
   invocation in flight nor the stores, and leaves the timer armed, so that
   the scans queued by a closed connection are dequeued by the ticks that
   follow like any other *)
DisconnectCancelsNothing ==
    /\ [][(\E ws \in DOMAIN conns : conns[ws].open /\ ~conns'[ws].open) =>
             UNCHANGED <<queue, currentMemoryBytes, stats, inflight, procStats,
                         processingInterval, isShuttingDown, files, scans,
                         sessions>>]_vars
    /\ []((/\ \E ws \in DOMAIN conns : ~conns[ws].open
           /\ Idle
           /\ queue # <<>>) => ENABLED Tick)
    /\ [][(Tick /\ queue # <<>>) =>
             /\ Len(inflight') = 1
             /\ inflight'[1].scan = queue[1]
             /\ queue' = Tail(queue)]_vars

(* the only connection is closed, one of its two scans has been stored and
   the other, dequeued after the close, is in flight *)
DisconnectCancelsNothingWitness ==
    /\ Len(conns) = 1 /\ ~conns[1].open
    /\ Len(inflight) = 1
    /\ inflight[1].scan.deviceId = conns[1].deviceId
    /\ \E m \in AcksTo(1) : m.seq = inflight[1].scan.seq /\ m.stored
    /\ Len(processLog) = 1 /\ processLog[1].outcome = "stored"
    /\ stats.peakQueueSize = 2

(* C30: the metadata of a scan is inserted only after its blob write has
   returned: every scan row has its blob file, and the continuation of an
   invocation whose write failed leaves the scans and sessions tables as
   they were and records the failure *)
MetadataAfterBlob ==
    /\ [](\A row \in scans : row.filePath \in DOMAIN files)
    /\ [][(/\ inflight # <<>>
           /\ inflight' = Tail(inflight)
           /\ ~Head(inflight).written) =>
             /\ UNCHANGED <<scans, sessions>>
             /\ procStats'.failed = procStats.failed + 1
             /\ procStats'.processed = procStats.processed]_vars

(* the blob write of the only accepted scan failed: the failure is recorded
   and there is no file, no scan row and no session *)
MetadataAfterBlobWitness ==
    /\ Len(processLog) = 1 /\ processLog[1].outcome = "failed"
    /\ files = <<>> /\ scans = {} /\ sessions = <<>>
    /\ procStats.failed = 1 /\ procStats.received = 1

----------------------------------------------------------------------------
(* SpecDb: a ScanDatabase driven through insertScan and deleteOldScans *)

MaxDbCalls == 3     \* calls in a behaviour of SpecDb

(* the metadata tried: two scans of a session, the second with the older
   timestamp, the scanId of the first again under another session, and a
   scan of that other session *)
DbMetadata ==
    {ScanMetadataOf(MkScan(0, "scan1", "sess1", "devA", 2000, 10)),
     ScanMetadataOf(MkScan(0, "scan2", "sess1", "devA", 1000, 200)),
     ScanMetadataOf(MkScan(0, "scan1", "sess2", "devA", 2000, 10)),
     ScanMetadataOf(MkScan(0, "scan3", "sess2", "devA", 1000, 10))}

Cutoffs == {1000, 2000}

NoMetadata == ScanMetadataOf(Null)

restOfDb == <<bufVars, procVars, files, wsVars, nextSeq>>

DbInsertScan ==
    /\ Len(dbLog) < MaxDbCalls
    /\ \E m \in DbMetadata : \E failAt \in 0..3 :
         /\ insertScan(m, failAt)
         /\ dbLog' = Append(dbLog,
               [op |-> "insertScan", scan |-> m, cutoff |-> 0,
                threw |-> InsertScanFails(m, failAt), result |-> 0])
    /\ UNCHANGED restOfDb

DbDeleteOldScans ==
    /\ Len(dbLog) < MaxDbCalls
    /\ \E beforeTimestamp \in Cutoffs : \E threw \in BOOLEAN :
       \E changes \in DbChanges(OldScans(scans, beforeTimestamp)) :
         /\ deleteOldScans(beforeTimestamp, threw)
         /\ dbLog' = Append(dbLog,
               [op |-> "deleteOldScans", scan |-> NoMetadata,
                cutoff |-> beforeTimestamp,
                threw |-> threw, result |-> DeleteReturn(threw, changes)])
    /\ UNCHANGED restOfDb

NextDb == DbInsertScan \/ DbDeleteOldScans

SpecDb == Init /\ [][NextDb]_vars

RECURSIVE SumPointCount(_)
SumPointCount(rows) ==
    IF rows = {} THEN 0
    ELSE LET r == CHOOSE x \in rows : TRUE
         IN  r.pointCount + SumPointCount(rows \ {r})

RECURSIVE SumSizeBytes(_)
SumSizeBytes(rows) ==
    IF rows = {} THEN 0
    ELSE LET r == CHOOSE x \in rows : TRUE
         IN  r.sizeBytes + SumSizeBytes(rows \ {r})

(* every call so far was an insertScan that returned *)
OnlySuccessfulInserts ==
    \A i \in 1..Len(dbLog) : dbLog[i].op = "insertScan" /\ ~dbLog[i].threw

RowsOf(sessionId) == {r \in scans : r.sessionId = sessionId}

(* C23: after successful insertScan calls only, each session counts its scan
   rows and sums their pointCount and sizeBytes, exists because it has a
   row, and started at the first scan inserted for it; the counters of a
   session never decrease *)
SessionAggregatesMatchRows ==
    /\ [](OnlySuccessfulInserts =>
            /\ \A r \in scans : r.sessionId \in DOMAIN sessions
            /\ \A id \in DOMAIN sessions :
                 /\ RowsOf(id) # {}
                 /\ sessions[id].scanCount = Cardinality(RowsOf(id))
                 /\ sessions[id].totalPoints = SumPointCount(RowsOf(id))
                 /\ sessions[id].totalSizeBytes = SumSizeBytes(RowsOf(id))
                 /\ \E i \in 1..Len(dbLog) :
                      /\ dbLog[i].scan.sessionId = id
                      /\ dbLog[i].scan.timestamp = sessions[id].startTime
                      /\ \A j \in 1..(i - 1) : dbLog[j].scan.sessionId # id)
    /\ [][\A id \in DOMAIN sessions :
            /\ id \in DOMAIN sessions'
            /\ sessions'[id].scanCount >= sessions[id].scanCount
            /\ sessions'[id].totalPoints >= sessions[id].totalPoints
            /\ sessions'[id].totalSizeBytes >= sessions[id].totalSizeBytes]_vars

(* scenario 5: a scan of 10 points created the session, a second scan of 200
   points brought it to two scans and 210 points *)
SessionAggregatesWitness ==
    /\ OnlySuccessfulInserts
    /\ Len(dbLog) = 2
    /\ dbLog[1].scan.pointCount = 10 /\ dbLog[2].scan.pointCount = 200
    /\ "sess1" \in DOMAIN sessions
    /\ sessions["sess1"].scanCount = 2
    /\ sessions["sess1"].totalPoints = 210

RECURSIVE MaxTimestamp(_)
MaxTimestamp(rows) ==
    IF rows = {} THEN 0
    ELSE LET r == CHOOSE x \in rows : TRUE
         IN  Max(r.timestamp, MaxTimestamp(rows \ {r}))

(* C24: after successful insertScan calls only, endTime of a session is the
   greatest timestamp inserted for it, and a call never moves it backwards *)
EndTimeIsMaxTimestamp ==
    /\ [](OnlySuccessfulInserts =>
            \A id \in DOMAIN sessions :
                sessions[id].endTime = MaxTimestamp(RowsOf(id)))
    /\ [][\A id \in DOMAIN sessions :
            sessions'[id].endTime >= sessions[id].endTime]_vars

(* C25: there is at most one scan row per scanId, and the continuation of an
   invocation whose scanId already has a row records a failure and leaves
   that row, the scans table and every session row as they were *)
DuplicateScanIdIsAnError ==
    /\ [](\A r1, r2 \in scans : r1.scanId = r2.scanId => r1 = r2)
    /\ [][(/\ inflight # <<>>
           /\ inflight' = Tail(inflight)
           /\ Head(inflight).written
           /\ \E r \in scans : r.scanId = Head(inflight).scan.scanId) =>
             /\ scans' = scans
             /\ \A id \in DOMAIN sessions :
                   id \in DOMAIN sessions' /\ sessions'[id] = sessions[id]
             /\ procStats'.failed = procStats.failed + 1
             /\ procStats'.processed = procStats.processed
             /\ processLog'[Len(processLog')].outcome = "failed"]_vars

(* scan1 was stored, then a second scan1 with 50 points was accepted, its
   blob written and its insert refused: one row of 10 points, one scan in
   the session *)
DuplicateScanIdWitness ==
    /\ Len(processLog) = 2
    /\ processLog[1].outcome = "stored" /\ processLog[2].outcome = "failed"
    /\ \E m \in outbox : m.seq = 1 /\ m.scanId = "scan1" /\ m.stored
    /\ \E m \in outbox : m.seq = 2 /\ m.scanId = "scan1" /\ m.stored
    /\ Cardinality(scans) = 1
    /\ \A r \in scans : r.scanId = "scan1" /\ r.pointCount = 10
    /\ sessions["sess1"].scanCount = 1 /\ sessions["sess1"].totalPoints = 10
    /\ \E p \in DOMAIN files : files[p].points = 50
    /\ procStats.failed = 1

(* the call that the step made on the ScanDatabase *)
LastCall == dbLog'[Len(dbLog')]
Called(op) == Len(dbLog') = Len(dbLog) + 1 /\ LastCall.op = op

(* C26: an insertScan that throws leaves no effect, so that every session row
   has counted a scan and every scan row is counted by its session *)
InsertScanIsAtomic ==
    /\ [][(Called("insertScan") /\ LastCall.threw) =>
             scans' = scans /\ sessions' = sessions]_vars
    /\ [](/\ \A id \in DOMAIN sessions : sessions[id].scanCount > 0
          /\ \A r \in scans :
               /\ r.sessionId \in DOMAIN sessions
               /\ sessions[r.sessionId].scanCount >= Cardinality(RowsOf(r.sessionId)))

(* C27: a deleteOldScans whose statement runs removes the rows with timestamp
   < cutoff, keeps the rows with timestamp >= cutoff, and returns the number
   of rows removed *)
DeleteRemovesOlderAndCounts ==
    [][(Called("deleteOldScans") /\ ~LastCall.threw) =>
          /\ scans' = {r \in scans : r.timestamp >= LastCall.cutoff}
          /\ \A r \in scans : r.timestamp = LastCall.cutoff => r \in scans'
          /\ LastCall.result = Cardinality(scans \ scans')]_vars

(* C28: deleteOldScans leaves the sessions table as it was, whatever the
   cutoff and whether or not rows were removed *)
DeleteKeepsSessions ==
    [][Called("deleteOldScans") => sessions' = sessions]_vars

(* the only scan row of a session has been deleted and the session still
   counts one scan and its points *)
DeleteKeepsSessionsWitness ==
    /\ Len(dbLog) = 2
    /\ dbLog[1].op = "insertScan" /\ ~dbLog[1].threw
    /\ dbLog[2].op = "deleteOldScans" /\ ~dbLog[2].threw
    /\ dbLog[2].cutoff > dbLog[1].scan.timestamp
    /\ scans = {}
    /\ sessions[dbLog[1].scan.sessionId].scanCount = 1
    /\ sessions[dbLog[1].scan.sessionId].totalPoints = dbLog[1].scan.pointCount
    /\ sessions[dbLog[1].scan.sessionId].endTime = dbLog[1].scan.timestamp

----------------------------------------------------------------------------
(* SpecBufShared: the BufferManager of SpecBuf, and a caller that keeps the
   scan objects it has enqueued.  The queue holds references (queue.push(scan)),
   so the caller can change the points array of a scan that is waiting. *)

CallerChangesPoints ==
    /\ \E i \in 1..Len(queue) : \E p \in PointCounts :
          /\ p # queue[i].points
          /\ queue' = [queue EXCEPT ![i].points = p]
    /\ UNCHANGED <<maxQueueSize, maxMemoryBytes, currentMemoryBytes, stats,
                   draining, ret, acceptedLog, dequeuedLog, cleared>>
    /\ UNCHANGED <<restOfBuf, nextSeq>>

NextBufShared ==
    \/ NextBuf
    \/ CallerChangesPoints

SpecBufShared == InitBuf /\ [][NextBufShared]_vars

(* C29: the bytes released when a scan leaves the queue are the bytes added
   when it entered, also when its points changed while it waited: once the
   queue is empty the byte total is zero *)
ReleasedEqualsAdmitted == queue = <<>> => currentMemoryBytes = 0

----------------------------------------------------------------------------
(* Further properties of the BufferManager, checked under SpecBuf *)

(* C31: the last call emitted 'backpressure' exactly when it was an enqueue
   that returned true and left queue.length / maxQueueSize >= 0.75; a call
   that emitted it returned true and its scan is the last of the queue; a
   refused enqueue, a dequeue, a drain or a clear never emits it *)
BackpressureExactly ==
    /\ ("backpressure" \in ret.events) <=>
          (ret.op = "enqueue" /\ ret.ok /\ 4 * Len(queue) >= 3 * maxQueueSize)
    /\ ("backpressure" \in ret.events) =>
          /\ queue # <<>> /\ queue[Len(queue)] = ret.scan
          /\ "overflow" \notin ret.events /\ "dropped" \notin ret.events

(* an accepted enqueue that brought a queue of 4 to 3 entries: exactly 0.75 *)
BackpressureExactlyWitness ==
    /\ maxQueueSize = 4 /\ Len(queue) = 3
    /\ ret.op = "enqueue" /\ ret.ok /\ ret.events = {"backpressure"}
    /\ queue[3] = ret.scan

(* C39: while clear() has not been called, stats.received = stats.dropped +
   stats.processed + size() *)
CountersAddUp ==
    ~cleared => stats.received = stats.dropped + stats.processed + Len(queue)

(* scans of all three kinds: dropped, dequeued, still queued *)
CountersAddUpWitness ==
    /\ ~cleared
    /\ stats.dropped > 0 /\ stats.processed > 0 /\ Len(queue) > 0
    /\ stats.received = MaxReceived

----------------------------------------------------------------------------
(* C40: after successful insertScan calls only, every scan row lies within
   its session's time span: startTime <= timestamp <= endTime, and so
   startTime <= endTime for every session that has a row *)
RowsWithinSessionSpan ==
    OnlySuccessfulInserts =>
        \A r \in scans :
            /\ r.sessionId \in DOMAIN sessions
            /\ sessions[r.sessionId].startTime <= r.timestamp
            /\ r.timestamp <= sessions[r.sessionId].endTime
            /\ sessions[r.sessionId].startTime <= sessions[r.sessionId].endTime

----------------------------------------------------------------------------
(* SpecRetention: the blob store and the metadata store, filled by the body
   of processNext and emptied by RetentionManager.cleanup *)

MaxRetentionCalls == 3     \* calls in a behaviour of SpecRetention

RetentionScans ==
    {MkScan(0, id, "sess1", "devA", t, 10) : id \in {"scan1", "scan2"}, t \in {1000, 2000}}

(* getScansByTimeRange: SELECT * FROM scans WHERE timestamp >= ? AND timestamp <= ? *)
getScansByTimeRange(rows, startTime, endTime) ==
    {r \in rows : r.timestamp >= startTime /\ r.timestamp <= endTime}

(* unlinkSync on each path of paths that exists and can be removed *)
Unlink(fs, paths) == [p \in DOMAIN fs \ paths |-> fs[p]]

restOfRetention == <<bufVars, procVars, wsVars, nextSeq>>

(* processNext from writeScan on, for a scan it has dequeued *)
RetentionStore ==
    /\ Len(dbLog) < MaxRetentionCalls
    /\ \E scan \in RetentionScans : \E written \in BOOLEAN : \E failAt \in 0..3 :
         LET m == ScanMetadataOf(scan)
         IN  /\ files' = IF written THEN WriteFile(files, scan) ELSE files
             /\ IF written
                THEN insertScan(m, failAt)
                ELSE UNCHANGED <<scans, sessions>>
             /\ dbLog' = Append(dbLog,
                   [op |-> "processNext", scan |-> m, cutoff |-> 0,
                    threw |-> ~written \/ InsertScanFails(m, failAt), result |-> 0])
    /\ UNCHANGED restOfRetention

(* cleanup() with cutoffTime = Date.now() - retentionDays days *)
RetentionCleanup ==
    /\ Len(dbLog) < MaxRetentionCalls
    /\ \E cutoffTime \in Cutoffs : \E queryThrew \in BOOLEAN : \E threw \in BOOLEAN :
         LET oldScans == IF queryThrew THEN {}
                         ELSE getScansByTimeRange(scans, 0, cutoffTime)
             present == {r.filePath : r \in oldScans} \cap DOMAIN files
         IN  /\ IF oldScans = {}
                THEN UNCHANGED <<files, scans, sessions>>
                ELSE /\ \E removed \in SUBSET present :
                          files' = Unlink(files, removed)
                     /\ deleteOldScans(cutoffTime, threw)
             /\ dbLog' = Append(dbLog,
                   [op |-> "cleanup", scan |-> NoMetadata, cutoff |-> cutoffTime,
                    threw |-> (oldScans # {} /\ threw), result |-> 0])
    /\ UNCHANGED restOfRetention

NextRetention == RetentionStore \/ RetentionCleanup

SpecRetention == Init /\ [][NextRetention]_vars

(* C34: a cleanup removes the blob file only of scans whose row it removes:
   every row that is left after a cleanup, also one whose timestamp is the
   cutoff, has its blob file if it had one before *)
CleanupKeepsFilesOfKeptRows ==
    [][Called("cleanup") =>
          \A r \in scans' :
              r.filePath \in DOMAIN files => r.filePath \in DOMAIN files']_vars

----------------------------------------------------------------------------
(* C35: for every metadata row, the blob file at its filePath is the encoding
   of the scan the row was built from: the file exists, holds the row's scan
   and has the row's pointCount and sizeBytes, also after a second scan with
   the same scanId and hour was processed and its insert refused *)
BlobMatchesRow ==
    \A r \in scans :
        /\ r.filePath \in DOMAIN files
        /\ files[r.filePath].scanId = r.scanId
        /\ files[r.filePath].sessionId = r.sessionId
        /\ files[r.filePath].timestamp = r.timestamp
        /\ files[r.filePath].points = r.pointCount
        /\ EncodedSize(files[r.filePath]) = r.sizeBytes

----------------------------------------------------------------------------
(* the socket that device d connected last *)
LatestSocket(d) ==
    CHOOSE ws \in DOMAIN conns :
        /\ conns[ws].deviceId = d
        /\ \A w \in DOMAIN conns : conns[w].deviceId = d => w <= ws

(* C33: a device whose most recently established connection is still open
   has a registry entry that refers to that connection, whatever sockets
   were opened and closed before *)
OpenLatestIsRegistered ==
    \A d \in {conns[w].deviceId : w \in DOMAIN conns} :
        conns[LatestSocket(d)].open =>
            d \in DOMAIN clients /\ clients[d] = LatestSocket(d)

----------------------------------------------------------------------------
(* SpecOverlap: the processor when the promise of writeScan is still pending
   at later firings of the timer (a FileWriter that writes asynchronously, as
   the signature of writeScan allows): processNext invocations overlap and
   resume in any order.  With the FileWriter of the repository the promise is
   settled before writeScan returns and no two invocations overlap (C12). *)

(* a firing of the timer while earlier invocations are suspended *)
TickOverlapping ==
    /\ shutdownPc = "idle"
    /\ processingInterval
    /\ processNext
    /\ UNCHANGED <<procStats, processingInterval, isShuttingDown, shutdownPc,
                   processLog, rejected, atShutdown, appShutdowns, scans, sessions, dbLog, wsVars,
                   nextSeq>>

MaxSubmits == 2     \* submit calls in a behaviour of SpecOverlap and SpecProc

(* the scans an owner of the processor submits: two valid ones with different
   scanIds, one with the scanId of the first and other points, and one that
   validateScan refuses *)
ProcScans ==
    {MkScan(nextSeq + 1, id, "sess1", "devA", 1000, 10) : id \in ScanIds}
    \cup {MkScan(nextSeq + 1, "scan1", "sess1", "devA", 1000, 50),
          MkScan(nextSeq + 1, "scan1", "sess1", "devA", 1000, 0)}

(* a call of submit(scan) by the owner of the processor *)
ProcSubmit ==
    /\ nextSeq < MaxSubmits
    /\ \E scan \in ProcScans : submit(scan)
    /\ nextSeq' = nextSeq + 1
    /\ UNCHANGED <<processingInterval, isShuttingDown, shutdownPc, inflight,
                   processLog, atShutdown, appShutdowns, storeVars, wsVars>>

NextOverlap ==
    \/ ProcSubmit
    \/ TickOverlapping
    \/ \E i \in 1..PipelineQueueSize : ProcessNextResumeAt(i)

SpecOverlap == Init /\ [][NextOverlap]_vars

NoDuplicates(s) == \A i, j \in 1..Len(s) : s[i] = s[j] => i = j

(* C32: also when processNext invocations overlap, each accepted scan is
   dequeued by at most one of them: no scan is returned by dequeue twice, no
   two suspended invocations hold the same scan, and no scan goes through the
   write and insert twice *)
QueueSafeUnderOverlap ==
    /\ NoDuplicates(dequeuedLog)
    /\ NoDuplicates([i \in 1..Len(inflight) |-> inflight[i].scan.seq])
    /\ NoDuplicates([i \in 1..Len(processLog) |-> processLog[i].seq])
    /\ \A i \in 1..Len(dequeuedLog) : dequeuedLog[i] \in Range(acceptedLog)
    /\ \A i \in 1..Len(inflight) : \A k \in 1..Len(processLog) :
           inflight[i].scan.seq # processLog[k].seq
    /\ \A i \in 1..Len(inflight) : \A k \in 1..Len(queue) :
           inflight[i].scan.seq # queue[k].seq

(* two invocations are suspended at once, each with a scan of its own *)
QueueSafeUnderOverlapWitness ==
    /\ Len(inflight) = 2
    /\ inflight[1].scan.seq # inflight[2].scan.seq
    /\ dequeuedLog = acceptedLog
    /\ queue = <<>>

----------------------------------------------------------------------------
(* SpecProc: a LiDARProcessor driven through its public methods by its owner:
   start() has armed the timer, submit(scan) and shutdown() are called at any
   time between callbacks, also submit after shutdown() was called *)

NextProc ==
    \/ inflight = <<>> /\ ProcSubmit
    \/ Tick
    \/ ProcessNextResume
    \/ ShutdownStart
    \/ ShutdownDrainNext
    \/ ShutdownBody

SpecProc == Init /\ [][NextProc]_vars

(* C36: once shutdown() has started, no scan is admitted to the queue (no
   submit returns true), and when shutdown() has completed the queue is empty *)
ShutdownAdmitsNothing ==
    /\ [][isShuttingDown => acceptedLog' = acceptedLog]_vars
    /\ [](shutdownPc = "done" => queue = <<>>)

----------------------------------------------------------------------------
(* SpecApp: the application with its signal handlers.  Each SIGTERM or SIGINT
   runs the shutdown closure of setupShutdownHandlers: it awaits
   wsServer.close(), then stops retention, awaits processor.shutdown(), closes
   the database and exits.  The callback of wss.close is a later event, so
   other callbacks (frames, timer firings, further signals) run while a
   handler waits for it; from processor.shutdown() to process.exit the
   handler runs in promise continuations only. *)

MaxSignals == 2     \* signals received in a behaviour of SpecApp

Signals == {"SIGTERM", "SIGINT"}

(* process.on(signal, ...): the closure up to its await of wsServer.close() *)
Signal(signal) ==
    /\ Idle
    /\ Len(appShutdowns) < MaxSignals
    /\ appShutdowns' = Append(appShutdowns, [signal |-> signal, pc |-> "closing"])
    /\ UNCHANGED <<bufVars, procStats, processingInterval, isShuttingDown, shutdownPc,
                   inflight, processLog, rejected, atShutdown, storeVars, wsVars,
                   nextSeq>>

(* the promise of wsServer.close() of the i-th handler is fulfilled: the
   handler goes on to processor.shutdown() *)
WsServerClosed(i) ==
    /\ i \in 1..Len(appShutdowns)
    /\ appShutdowns[i].pc = "closing"
    /\ shutdown
    /\ appShutdowns' = [appShutdowns EXCEPT ![i].pc = "draining"]

NextApp ==
    \/ \E request \in PipelineRequests :
          Len(upgrades) < MaxSockets /\ VerifyClient(request)
    \/ \E ws \in 1..MaxSockets : HandleMessage(ws)
    \/ \E ws \in 1..MaxSockets : HandleDisconnect(ws)
    \/ Tick
    \/ ProcessNextResume
    \/ \E signal \in Signals : Signal(signal)
    \/ \E i \in 1..MaxSignals : WsServerClosed(i)
    \/ ShutdownDrainNext
    \/ ShutdownBody

SpecApp == Init /\ [][NextApp]_vars

(* C38: the shutdown sequence runs at most once: at most one run of the
   shutdown handler has been started, whatever signals arrived *)
ShutdownSequenceOnce ==
    Cardinality({i \in 1..Len(appShutdowns) :
                    appShutdowns[i].pc \in {"closing", "draining"}}) <= 1

----------------------------------------------------------------------------
(* C37: from the start of shutdown() on, no processNext invocation is
   suspended between its dequeue and its insert: when shutdown() has resolved
   and the application closes the database none is left, and no row is
   inserted and no blob written afterwards *)
NothingInFlightAtShutdown ==
    /\ [](shutdownPc # "idle" => inflight = <<>>)
    /\ [][isShuttingDown => UNCHANGED <<scans, sessions, files>>]_vars

(* shutdown() has resolved after the timer had processed a scan to its
   insert and dequeued nothing else *)
NothingInFlightAtShutdownWitness ==
    /\ shutdownPc = "done"
    /\ Len(processLog) >= 1
    /\ processLog[Len(processLog)].outcome = "stored"
    /\ Len(dequeuedLog) = Len(processLog)
    /\ scans # {}

====
